---- MODULE Spec2Model ----
(* A model of the tflite -> onnx converter's graph engine:                  *)
(*   tree_structure.py  Tree (graph builder, side-input elimination,        *)
(*                      output-edge inference, activation de-fusion)        *)
(*   base_layer.py      Layer (node identity and edge lists)                *)
(*   aact_layers.py     defused_activation_node_generator, ActivationDefused*)
(*   tflite2onnx.py     main (pipeline driver)                              *)
EXTENDS Integers, Sequences, FiniteSets, TLC

VARIABLES
    tflite_ops,        \* Tree.__tflite_ops / __tflite_op_types: the operator records in source order
    tensor_name,       \* the interpreter's tensor table: tensor index -> name
    tensor_shape,      \* the interpreter's tensor table: tensor index -> shape
    model_outputs,     \* the interpreter's output details: the tensors declared as model outputs
    caller,            \* "main_transpose", "main_release" (main with the flag on / off) or "Tree" (Tree(model_path))
    pc,                \* position of the run
    error,             \* the exception that ended the run, "" when none
    cursor,            \* index of the current loop iteration
    nodes,             \* Tree.__nodes: node name -> Layer object
    node_keys,         \* insertion order of the keys of Tree.__nodes
    add_defused_activation_node_list,   \* local of Tree.__defused
    activation_read,   \* the fused activation code read by the latest de-fusion visit
    built_nodes,       \* the graph as it was when Tree.__defused was entered
    built_keys,        \* its key order
    onnx_node_list,    \* main: the target nodes emitted so far
    op_name__sub_op_name__table,   \* main: source node name -> names of the target nodes it became
    output_tensor_value_info,      \* main: the declared external outputs
    input_tensor_value_info,       \* main: the declared external input
    inner_node_shape_value_info,   \* main: the declared shapes of the emitted nodes' outputs
    onnx_weight_node_list,         \* main: the names of the emitted constants
    model_saved,       \* main: onnx.save was reached
    visit_acts,        \* fused activation code held by every operator's options
    visit_todo,        \* order study: keys not yet visited
    feat_map_size,     \* getPadding: argument, the feature map's shape [n, h, w, c]
    kernel_size,       \* getPadding: argument [kernel_h, kernel_w]
    strides,           \* getPadding: argument [stride_h, stride_w]
    mode,              \* getPadding: argument, the padding mode
    padding            \* getPadding: the value returned

vars == <<tflite_ops, tensor_name, tensor_shape, model_outputs, caller, pc, error, cursor, nodes, node_keys,
          add_defused_activation_node_list, activation_read, built_nodes, built_keys,
          onnx_node_list, op_name__sub_op_name__table, output_tensor_value_info, model_saved,
          input_tensor_value_info, inner_node_shape_value_info, onnx_weight_node_list,
          visit_acts, visit_todo, feat_map_size, kernel_size, strides, mode, padding>>

-----------------------------------------------------------------------------
(* Bounds of the explored inputs *)

MaxOps == 2        \* operators in the source model
OrderOps == 3      \* operators in the visiting-order study
LowerOps == 2      \* operators in the lowering study
MaxFeat == 7       \* height and width of a feature map in the padding study
MaxKernel == 3     \* kernel height and width in the padding study
MaxStride == 2     \* stride in the padding study

-----------------------------------------------------------------------------
(* Source model: tensors, names, operator records *)

None == [none |-> TRUE]

\* None where the code otherwise returns a list (a shape, a padding): no list it
\* returns is empty
NoneList == <<>>

Digits == <<"0", "1", "2", "3", "4", "5", "6", "7", "8", "9">>

\* name pool: the i-th distinct tensor name
PoolName(i) == "t" \o Digits[i + 1]

\* tensor 0 is the model's input, operator k produces tensor k, and the tensor
\* after the last operator's is a constant buffer (a convolution filter)
Tensors(n) == 0..(n + 1)

ConstTensor(n) == n + 1

\* Tensor names are not forced to be unique by the source format: at most one
\* tensor repeats the name of a lower-numbered tensor.
NameTables(n) ==
    { [i \in Tensors(n) |-> PoolName(f[i])] :
        f \in { g \in [Tensors(n) -> Tensors(n)] :
                  /\ \A i \in Tensors(n) : g[i] <= i
                  /\ Cardinality({i \in Tensors(n) : g[i] # i}) <= 1 } }

UniqueNameTable(n) == [i \in Tensors(n) |-> PoolName(i)]

\* BuiltinOperator codes the explored models use; CUSTOM is a code Tree has no layer for
OpTypes == {"CONV_2D", "ADD", "RELU", "CUSTOM"}

\* the declared inputs of operator k of n, by kind: a convolution lists its feature
\* map and its filter, a PReLU its operand and its slope, an addition two operands,
\* the others one operand; operands are tensors that exist before the operator runs
OpInputs(k, n, t) ==
    IF t \in {"CONV_2D", "PRELU"} THEN { <<x, ConstTensor(n)>> : x \in 0..(k - 1) }
    ELSE IF t = "ADD" THEN { <<x, y>> : x \in 0..(k - 1), y \in 0..(k - 1) }
    ELSE { <<x>> : x \in 0..(k - 1) }

OpRecords(k, n, types) ==
    UNION { { [inputs |-> ins, output |-> k, op_type |-> t] : ins \in OpInputs(k, n, t) } : t \in types }

\* the operator lists of length n: operators 1..k of n
RECURSIVE OpListsTo(_, _, _)
OpListsTo(k, n, types) ==
    IF k = 0 THEN { <<>> }
    ELSE { Append(l, r) : l \in OpListsTo(k - 1, n, types), r \in OpRecords(k, n, types) }

OpLists(n, types) == OpListsTo(n, n, types)

\* ActivationFunctionType codes; "OTHER" stands for a code outside the enumeration
ActivationFunctionType == {"NONE", "RELU", "RELU_N1_TO_1", "RELU6", "TANH", "SIGN_BIT", "OTHER"}

-----------------------------------------------------------------------------
(* List helpers with Python's semantics *)

Contains(s, x) == \E i \in 1..Len(s) : s[i] = x

FirstIndex(s, x) == CHOOSE i \in 1..Len(s) : s[i] = x /\ \A j \in 1..(i - 1) : s[j] # x

\* list.remove(x): drops the first occurrence; the caller checks Contains first
RemoveFirst(s, x) ==
    LET i == FirstIndex(s, x)
    IN  SubSeq(s, 1, i - 1) \o SubSeq(s, i + 1, Len(s))

Count(s, x) == Cardinality({i \in 1..Len(s) : s[i] = x})

Range(s) == { s[i] : i \in 1..Len(s) }


-----------------------------------------------------------------------------
(* base_layer.py: Layer *)

TensorDetails(names, idx) == [index |-> idx, name |-> names[idx]]

\* Layer.__init_node_info with an operator record (op is not None)
init_node_info(names, op) ==
    LET node_output_detail == TensorDetails(names, op.output)
    IN  [node_idx |-> node_output_detail.index, node_name |-> node_output_detail.name]

\* Layer.__init_inputs with an operator record
init_inputs(names, op) ==
    [input_nodes_idx  |-> op.inputs,
     input_nodes_name |-> [i \in 1..Len(op.inputs) |-> TensorDetails(names, op.inputs[i]).name]]

\* Layer.__init__: identity, declared inputs, empty output lists
Layer(names, op, cls) ==
    [node_idx          |-> init_node_info(names, op).node_idx,
     node_name         |-> init_node_info(names, op).node_name,
     input_nodes_idx   |-> init_inputs(names, op).input_nodes_idx,
     input_nodes_name  |-> init_inputs(names, op).input_nodes_name,
     output_nodes_idx  |-> <<>>,
     output_nodes_name |-> <<>>,
     op                |-> op,
     op_type           |-> op.op_type,
     layer             |-> cls]

-----------------------------------------------------------------------------
(* tree_structure.py: Tree.__node_generator *)

LayerClassOf ==
    [CONV_2D |-> "Convolution", DEPTHWISE_CONV_2D |-> "DepthwiseConvolution",
     SOFTMAX |-> "Softmax", RELU |-> "Relu", RELU6 |-> "Relu6", PRELU |-> "PRelu",
     LOGISTIC |-> "LOGISTIC", FULLY_CONNECTED |-> "Dense", RESHAPE |-> "Reshape",
     PAD |-> "Pad", ADD |-> "Add", MUL |-> "Mul", CONCATENATION |-> "Concatenation",
     MEAN |-> "Mean", MAX_POOL_2D |-> "MaxPooling2D", AVERAGE_POOL_2D |-> "AveragePooling2D",
     SQUEEZE |-> "Squeeze", RESIZE_NEAREST_NEIGHBOR |-> "ResizeNearestNeighbor",
     RESIZE_BILINEAR |-> "ResizeBilinear", L2_NORMALIZATION |-> "L2Normalization",
     TRANSPOSE_CONV |-> "TransposeConvolution"]

SupportedOpTypes == DOMAIN LayerClassOf

\* a variant with a generic fallback for the kinds Tree has no layer for
node_generator_Fallback(names, op) ==
    Layer(names, op, IF op.op_type \in DOMAIN LayerClassOf THEN LayerClassOf[op.op_type] ELSE "Convolution")

\* the layer object for a supported kind, None for the raise ValueError(op_type) branch
node_generator(names, op) ==
    IF op.op_type \in SupportedOpTypes
    THEN Layer(names, op, LayerClassOf[op.op_type])
    ELSE None

-----------------------------------------------------------------------------
(* tree_structure.py: Tree.__eliminate_side_input *)

nodes_idx_of(g) == { g[k].node_idx : k \in DOMAIN g }

eliminate_side_input(g) ==
    [k \in DOMAIN g |->
        [g[k] EXCEPT
            !.input_nodes_idx  = SelectSeq(g[k].input_nodes_idx, LAMBDA i : i \in nodes_idx_of(g)),
            !.input_nodes_name = SelectSeq(g[k].input_nodes_name, LAMBDA n : n \in DOMAIN g)]]

-----------------------------------------------------------------------------
(* tree_structure.py: Tree.__init_outputs_node_info *)

\* nodes_idx_dict[idx]: the key of the node with that index
KeyOfIdx(g, idx) == CHOOSE k \in DOMAIN g : g[k].node_idx = idx

\* lines 101-102: every input index of the node appends the node's index to its producer
RECURSIVE AppendOutputIdx(_, _, _)
AppendOutputIdx(g, idx, inputs) ==
    IF inputs = <<>> THEN g
    ELSE LET p == KeyOfIdx(g, Head(inputs))
         IN  AppendOutputIdx([g EXCEPT ![p].output_nodes_idx = Append(@, idx)], idx, Tail(inputs))

\* lines 99-102 over the nodes in dictionary order
RECURSIVE InitOutputIdx(_, _)
InitOutputIdx(g, keys) ==
    IF keys = <<>> THEN g
    ELSE InitOutputIdx(AppendOutputIdx(g, g[Head(keys)].node_idx, g[Head(keys)].input_nodes_idx),
                       Tail(keys))

\* a variant that records the edge on the consumer instead of the producer
RECURSIVE AppendOutputName_Swapped(_, _, _)
AppendOutputName_Swapped(g, name, inputs) ==
    IF inputs = <<>> THEN g
    ELSE LET p == Head(inputs)
         IN  AppendOutputName_Swapped(
                 IF ~Contains(g[name].output_nodes_name, p)
                 THEN [g EXCEPT ![name].output_nodes_name = Append(@, p)]
                 ELSE g,
                 name, Tail(inputs))

\* lines 110-112: every input name of the node appends the node's name to its producer, once
RECURSIVE AppendOutputName(_, _, _)
AppendOutputName(g, name, inputs) ==
    IF inputs = <<>> THEN g
    ELSE LET p == Head(inputs)
         IN  AppendOutputName(
                 IF ~Contains(g[p].output_nodes_name, name)
                 THEN [g EXCEPT ![p].output_nodes_name = Append(@, name)]
                 ELSE g,
                 name, Tail(inputs))

\* lines 108-112 over the nodes in dictionary order
RECURSIVE InitOutputName(_, _)
InitOutputName(g, keys) ==
    IF keys = <<>> THEN g
    ELSE InitOutputName(AppendOutputName(g, Head(keys), g[Head(keys)].input_nodes_name),
                        Tail(keys))

init_outputs_node_info(g, keys) == InitOutputName(InitOutputIdx(g, keys), keys)

-----------------------------------------------------------------------------
(* aact_layers.py: the de-fused activation layers *)

\* ActivationDefused.__init__: a Layer built from the same operator record, renamed
ActivationDefused(names, op, cls) ==
    [Layer(names, op, cls) EXCEPT !.node_name = @ \o "_Fused"]

\* a variant that also splits out a fused TANH
defused_activation_node_generator_Tanh(activation_function_type, names, op) ==
    IF activation_function_type \in {"RELU", "TANH"} THEN ActivationDefused(names, op, "ReluDefused")
    ELSE IF activation_function_type = "RELU6" THEN ActivationDefused(names, op, "Relu6Defused")
    ELSE None

defused_activation_node_generator(activation_function_type, names, op) ==
    IF activation_function_type = "NONE" THEN None
    ELSE IF activation_function_type = "RELU" THEN ActivationDefused(names, op, "ReluDefused")
    ELSE IF activation_function_type = "RELU_N1_TO_1" THEN None
    ELSE IF activation_function_type = "RELU6" THEN ActivationDefused(names, op, "Relu6Defused")
    ELSE IF activation_function_type = "TANH" THEN None
    ELSE IF activation_function_type = "SIGN_BIT" THEN None
    ELSE None

\* base_layer.py: Layer.defuse_activation_function, inherited by every layer of aact_layers.py
Layer_defuse_activation_function == None

\* the layers whose operator options carry a fused activation override it
FusedActivationLayers == {"Convolution", "DepthwiseConvolution", "Dense", "Add", "Mul"}

\* the override: hands the operator's fused activation code and its own record to the generator
defuse_activation_function(names, node, activation_function_type) ==
    IF node.layer \in FusedActivationLayers
    THEN defused_activation_node_generator(activation_function_type, names, node.op)
    ELSE Layer_defuse_activation_function

-----------------------------------------------------------------------------
(* tree_structure.py: Tree.__defused, one visit (lines 125-156) *)

\* lines 141-142: remove every name of the copy from the list
RECURSIVE RemoveEach(_, _)
RemoveEach(s, removes) ==
    IF removes = <<>> THEN s
    ELSE RemoveEach(RemoveFirst(s, Head(removes)), Tail(removes))

\* a variant that overwrites the consumer's input list instead of editing it
RECURSIVE ModifyOutputNodes_Overwrite(_, _, _, _)
ModifyOutputNodes_Overwrite(st, outs, remove_name, add_name) ==
    IF outs = <<>> THEN st
    ELSE ModifyOutputNodes_Overwrite(
             [st EXCEPT !.g[Head(outs)].input_nodes_name = << add_name >>],
             Tail(outs), remove_name, add_name)

\* lines 150-153: each listed consumer drops its first reference to the node and
\* appends the fused node; ok turns FALSE where list.remove raises ValueError
RECURSIVE ModifyOutputNodes(_, _, _, _)
ModifyOutputNodes(st, outs, remove_name, add_name) ==
    IF outs = <<>> \/ ~st.ok THEN st
    ELSE LET m == Head(outs)
         IN  IF Contains(st.g[m].input_nodes_name, remove_name)
             THEN ModifyOutputNodes(
                     [st EXCEPT !.g[m].input_nodes_name = Append(RemoveFirst(@, remove_name), add_name)],
                     Tail(outs), remove_name, add_name)
             ELSE [st EXCEPT !.ok = FALSE]

\* the visit of node `key` whose defuse_activation_function returned `fused`:
\* the rewired graph, the finished fused node, and whether no exception was raised
DefuseNode(g, key, fused) ==
    LET node == g[key]
        input_node_outputs_remove_name == node.output_nodes_name
        input_node_outputs_add_name == fused.node_name
        fused_node_inputs_name == <<node.node_name>>
        fused_node_outputs_name == node.output_nodes_name
        g1 == [g EXCEPT ![key].output_nodes_name =
                 Append(RemoveEach(@, input_node_outputs_remove_name), input_node_outputs_add_name)]
        f1 == [fused EXCEPT !.node_idx = -1,
                            !.input_nodes_name = fused_node_inputs_name,
                            !.output_nodes_name = fused_node_outputs_name]
        st == ModifyOutputNodes([g |-> g1, ok |-> TRUE], fused_node_outputs_name,
                                node.node_name, fused.node_name)
    IN  [g |-> st.g, ok |-> st.ok, fused |-> f1]

\* lines 159-160: the fused nodes enter the dictionary after the loop
RECURSIVE AddFusedNodes(_, _)
AddFusedNodes(g, list) ==
    IF list = <<>> THEN g
    ELSE AddFusedNodes((Head(list).node_name :> Head(list)) @@ g, Tail(list))

RECURSIVE AddFusedKeys(_, _)
AddFusedKeys(keys, list) ==
    IF list = <<>> THEN keys
    ELSE AddFusedKeys(IF Contains(keys, Head(list).node_name) THEN keys
                      ELSE Append(keys, Head(list).node_name), Tail(list))

\* one visit of Tree.__defused's loop (lines 120-156) for the node `key`, whose
\* operator options hold the fused activation code `act`
DefuseStep(names, g, key, act) ==
    LET fused == defuse_activation_function(names, g[key], act)
    IN  IF fused = None
        THEN [g |-> g, ok |-> TRUE, fused |-> None]
        ELSE DefuseNode(g, key, fused)

-----------------------------------------------------------------------------
(* tree_structure.py: Tree.__parse_graph *)

\* lines 66-69: self.__nodes[node.node_name] = node; a repeated name keeps its
\* place in the dictionary order and takes the later node
ParseStep(names, st, op) ==
    LET node == node_generator(names, op)
    IN  [g    |-> (node.node_name :> node) @@ st.g,
         keys |-> IF node.node_name \in DOMAIN st.g THEN st.keys ELSE Append(st.keys, node.node_name)]

RECURSIVE parse_graph(_, _, _)
parse_graph(names, st, ops) ==
    IF ops = <<>> THEN st
    ELSE parse_graph(names, ParseStep(names, st, Head(ops)), Tail(ops))

\* Tree.__init__ up to the de-fusion pass (lines 41-43), for supported operators
BuildGraph(names, ops) ==
    LET st == parse_graph(names, [g |-> <<>>, keys |-> <<>>], ops)
    IN  [g |-> init_outputs_node_info(eliminate_side_input(st.g), st.keys), keys |-> st.keys]

-----------------------------------------------------------------------------
(* utils.py: the layout mapper; the shapes the source model reports *)

\* ranks of the tensors the explored models hold
OutputRanks == {2, 3, 4}

\* the channel-last shape of a tensor of rank r, its extents all different
ShapeOfRank(r) == SubSeq(<<1, 7, 5, 3>>, 1, r)

Shapes == { ShapeOfRank(r) : r \in OutputRanks }

\* a variant that leaves the extents where they are
tflite2onnx_shape_map_Unmapped(shape_list) ==
    IF Len(shape_list) # 4 THEN NoneList
    ELSE shape_list

\* tflite2onnx_shape_map: None unless the rank is 4
tflite2onnx_shape_map(shape_list) ==
    IF Len(shape_list) # 4 THEN NoneList
    ELSE << shape_list[1], shape_list[4], shape_list[2], shape_list[3] >>

\* get_output_node_info_by_name_if_exist: the first output detail of that name,
\* None when there is none; the output details are listed by tensor index
get_output_node_info_by_name_if_exist(node_name, names, shapes, outputs) ==
    LET hits == { i \in outputs : names[i] = node_name }
    IN  IF hits = {} THEN None
        ELSE LET i == CHOOSE x \in hits : \A y \in hits : x <= y
             IN  [index |-> i, name |-> names[i], shape |-> shapes[i]]

\* helper.make_tensor_value_info(name, FLOAT, shape); a shape of None declares no shape
make_tensor_value_info(name, shape) == [name |-> name, shape |-> shape]

-----------------------------------------------------------------------------
(* Lowering: Layer.init_generate and the generate methods *)

TargetNode(op_type, name, inputs, outputs, perm) ==
    [op_type |-> op_type, name |-> name, inputs |-> inputs, outputs |-> outputs, perm |-> perm]

\* Layer.init_generate: onnx_node_name is the name of the operator's first output tensor
onnx_node_name_of(names, node) == TensorDetails(names, node.op.output).name

\* Convolution.generate: one Conv node fed by its predecessor and a named weight
\* constant; its output shape is declared by the general rule of the lowering
\* routines (rank 4 remapped, any other rank as it is)
Convolution_generate(onnx_node_name, previous_onnx_node_names, shape) ==
    [node_list |-> << TargetNode("Conv", onnx_node_name,
                                 previous_onnx_node_names \o << onnx_node_name \o "_weight" >>,
                                 << onnx_node_name >>, <<>>) >>,
     value_infos |-> << make_tensor_value_info(onnx_node_name,
                            IF Len(shape) = 4 THEN tflite2onnx_shape_map(shape) ELSE shape) >>,
     weight_node_list |-> << onnx_node_name \o "_weight" >>]

\* aact_layers.py: generate of Relu, Relu6, LOGISTIC, Softmax, PRelu, ReluDefused,
\* Relu6Defused; shape is node_output_detail['shape']
generate(names, node, previous_onnx_node_names, shape) ==
    LET onnx_node_name == onnx_node_name_of(names, node)
        out_shape_info(name) == make_tensor_value_info(name, tflite2onnx_shape_map(shape))
        declared(kind, ins) ==
            [node_list |-> << TargetNode(kind, onnx_node_name, ins, << onnx_node_name >>, <<>>) >>,
             value_infos |-> << out_shape_info(onnx_node_name) >>,
             weight_node_list |-> <<>>]
        undeclared(kind, ins) ==
            [node_list |-> << TargetNode(kind, onnx_node_name, ins, << onnx_node_name >>, <<>>) >>,
             value_infos |-> <<>>,
             weight_node_list |-> <<>>]
    IN  CASE node.layer = "Relu" -> declared("Relu", previous_onnx_node_names)
          [] node.layer = "Relu6" -> declared("Clip", previous_onnx_node_names)
          [] node.layer = "LOGISTIC" -> undeclared("Sigmoid", previous_onnx_node_names)
          [] node.layer = "Softmax" -> undeclared("Softmax", previous_onnx_node_names)
          [] node.layer = "PRelu" ->
                [node_list |-> << TargetNode("PRelu", onnx_node_name,
                                             previous_onnx_node_names \o << onnx_node_name \o "_slope" >>,
                                             << onnx_node_name >>, <<>>) >>,
                 value_infos |-> << out_shape_info(onnx_node_name) >>,
                 weight_node_list |-> << onnx_node_name \o "_slope" >>]
          [] node.layer = "ReluDefused" ->
                [node_list |-> << TargetNode("Relu", node.node_name, << onnx_node_name >>,
                                             << node.node_name >>, <<>>) >>,
                 value_infos |-> << out_shape_info(node.node_name) >>,
                 weight_node_list |-> <<>>]
          [] node.layer = "Relu6Defused" ->
                [node_list |-> << TargetNode("Clip", node.node_name, << onnx_node_name >>,
                                             << node.node_name >>, <<>>) >>,
                 value_infos |-> << out_shape_info(node.node_name) >>,
                 weight_node_list |-> <<>>]
          [] OTHER -> Convolution_generate(onnx_node_name, previous_onnx_node_names, shape)

-----------------------------------------------------------------------------
(* tflite2onnx.py: boundary helpers *)

build_head_transpose_node_for_channel_last_2_channel_first(input_name) ==
    TargetNode("Transpose", "transpose_node_input_" \o input_name, << input_name >>,
               << "transpose_node_input_" \o input_name >>, <<0, 3, 1, 2>>)

\* a variant that knows rank-4 outputs only
build_button_transpose_node_Rank4Only(onnx_end_node, rank) ==
    IF rank = 4
    THEN TargetNode("Transpose", "transpose_node_output_" \o onnx_end_node.name,
                    << onnx_end_node.name >>, << "out_" \o onnx_end_node.name >>, <<0, 2, 3, 1>>)
    ELSE None

\* the transpose the output step appends, None when it renames the end node instead
build_button_transpose_node(onnx_end_node, rank) ==
    IF rank = 4
    THEN TargetNode("Transpose", "transpose_node_output_" \o onnx_end_node.name,
                    << onnx_end_node.name >>, << "out_" \o onnx_end_node.name >>, <<0, 2, 3, 1>>)
    ELSE IF rank = 3
    THEN TargetNode("Transpose", "transpose_node_output_" \o onnx_end_node.name,
                    << onnx_end_node.name >>, << "out_" \o onnx_end_node.name >>, <<0, 2, 1>>)
    ELSE None

\* onnx_end_node.output[:] = [out_value_info_name]
RenameOutput(onnx_end_node) == [onnx_end_node EXCEPT !.outputs = << "out_" \o onnx_end_node.name >>]

\* the value info build_button_transpose_node_for_channel_first_2_channel_last
\* returns: the output keeps the shape the source model reports
button_out_value_info(onnx_end_node, shape) ==
    make_tensor_value_info("out_" \o onnx_end_node.name, shape)

\* the value info set_end_node returns: the output's shape goes through the layout mapper
set_end_node(onnx_end_node, shape) ==
    make_tensor_value_info("out_" \o onnx_end_node.name, tflite2onnx_shape_map(shape))

Last(s) == s[Len(s)]

-----------------------------------------------------------------------------
(* The run: main (tflite2onnx.py) or a direct Tree(model_path) *)

Callers == {"main_transpose", "main_release", "Tree"}

\* main passes defused=False (line 136); Tree's own default is defused=True (line 33)
enable_defuse == caller = "Tree"

model_input_name == tensor_name[0]

tree_vars == <<nodes, node_keys, add_defused_activation_node_list, activation_read,
               built_nodes, built_keys>>
main_vars == <<onnx_node_list, op_name__sub_op_name__table, output_tensor_value_info, model_saved,
               input_tensor_value_info, inner_node_shape_value_info, onnx_weight_node_list>>

\* main's locals as they are before main runs
NoMainState ==
    /\ onnx_node_list = <<>>
    /\ op_name__sub_op_name__table = <<>>
    /\ output_tensor_value_info = <<>>
    /\ input_tensor_value_info = None
    /\ inner_node_shape_value_info = <<>>
    /\ onnx_weight_node_list = <<>>
    /\ model_saved = FALSE
input_vars == <<tflite_ops, tensor_name, tensor_shape, model_outputs, caller, visit_acts, visit_todo>>
padding_vars == <<feat_map_size, kernel_size, strides, mode, padding>>

\* the state of the padding study, unused by a conversion run
NoPaddingCall ==
    /\ feat_map_size = <<>>
    /\ kernel_size = <<>>
    /\ strides = <<>>
    /\ mode = ""
    /\ padding = <<>>

Init ==
    /\ caller \in Callers
    /\ \E n \in 1..MaxOps :
          /\ tflite_ops \in OpLists(n, OpTypes)
          /\ tensor_name \in NameTables(n)
          /\ tensor_shape = [i \in Tensors(n) |-> ShapeOfRank(4)]
          /\ model_outputs \in IF caller = "Tree" THEN { {} } ELSE SUBSET (1..n)
    /\ pc = IF caller = "Tree" THEN "parse" ELSE "main"
    /\ error = ""
    /\ cursor = 1
    /\ nodes = <<>>
    /\ node_keys = <<>>
    /\ add_defused_activation_node_list = <<>>
    /\ activation_read = ""
    /\ built_nodes = <<>>
    /\ built_keys = <<>>
    /\ NoMainState
    /\ visit_acts = <<>>
    /\ visit_todo = {}
    /\ NoPaddingCall

\* main, lines 101-132: the declared input, the head transpose and the first
\* entry of the name table
MainHead ==
    /\ pc = "main"
    /\ LET model_input_shape == tensor_shape[0]
       IN  IF caller = "main_transpose"
             THEN LET transpose_node == build_head_transpose_node_for_channel_last_2_channel_first(model_input_name)
                  IN  /\ input_tensor_value_info' = make_tensor_value_info(model_input_name, model_input_shape)
                      /\ onnx_node_list' = << transpose_node >>
                      /\ op_name__sub_op_name__table' =
                             (model_input_name :> << model_input_name, transpose_node.name >>)
             ELSE /\ input_tensor_value_info' =
                         make_tensor_value_info(model_input_name, tflite2onnx_shape_map(model_input_shape))
                  /\ onnx_node_list' = <<>>
                  /\ op_name__sub_op_name__table' =
                         (model_input_name :> << model_input_name, input_tensor_value_info'.name >>)
    /\ pc' = "parse"
    /\ UNCHANGED <<error, cursor, output_tensor_value_info, model_saved,
                   inner_node_shape_value_info, onnx_weight_node_list>>
    /\ UNCHANGED tree_vars
    /\ UNCHANGED input_vars
    /\ UNCHANGED padding_vars

\* Tree.__parse_graph, one iteration (lines 65-69)
ParseOp ==
    /\ pc = "parse"
    /\ LET op == tflite_ops[cursor]
           node == node_generator(tensor_name, op)
       IN  IF node = None
           THEN /\ pc' = "failed"
                /\ error' = "ValueError"
                /\ UNCHANGED <<cursor, nodes, node_keys>>
           ELSE /\ nodes' = ParseStep(tensor_name, [g |-> nodes, keys |-> node_keys], op).g
                /\ node_keys' = ParseStep(tensor_name, [g |-> nodes, keys |-> node_keys], op).keys
                /\ IF cursor = Len(tflite_ops)
                   THEN pc' = "eliminate" /\ cursor' = 1
                   ELSE pc' = "parse" /\ cursor' = cursor + 1
                /\ UNCHANGED error
    /\ UNCHANGED <<add_defused_activation_node_list, activation_read, built_nodes, built_keys>>
    /\ UNCHANGED main_vars
    /\ UNCHANGED input_vars
    /\ UNCHANGED padding_vars

\* Tree.__eliminate_side_input (lines 71-88)
EliminateSideInput ==
    /\ pc = "eliminate"
    /\ nodes' = eliminate_side_input(nodes)
    /\ pc' = "init_outputs"
    /\ UNCHANGED <<error, cursor, node_keys, add_defused_activation_node_list, activation_read,
                   built_nodes, built_keys>>
    /\ UNCHANGED main_vars
    /\ UNCHANGED input_vars
    /\ UNCHANGED padding_vars

\* Tree.__init_outputs_node_info (lines 90-112)
InitOutputsNodeInfo ==
    /\ pc = "init_outputs"
    /\ nodes' = init_outputs_node_info(nodes, node_keys)
    /\ built_nodes' = nodes'
    /\ built_keys' = node_keys
    /\ pc' = "defuse"
    /\ UNCHANGED <<error, cursor, node_keys, add_defused_activation_node_list, activation_read>>
    /\ UNCHANGED main_vars
    /\ UNCHANGED input_vars
    /\ UNCHANGED padding_vars

\* where the run goes once the Tree is built
AfterTree == IF caller = "Tree" THEN "done" ELSE "lower"

\* Tree.__defused with enable_defuse false (lines 115-116)
DefuseSkip ==
    /\ pc = "defuse"
    /\ ~enable_defuse
    /\ pc' = AfterTree
    /\ UNCHANGED <<error, cursor>>
    /\ UNCHANGED tree_vars
    /\ UNCHANGED main_vars
    /\ UNCHANGED input_vars
    /\ UNCHANGED padding_vars

\* the activation codes the node's operator options can hold
ReadableActivations(node) ==
    IF node.layer \in FusedActivationLayers THEN ActivationFunctionType ELSE {"-"}

\* Tree.__defused, one iteration of the loop over the nodes (lines 119-156)
DefuseVisit ==
    /\ pc = "defuse"
    /\ enable_defuse
    /\ LET key == node_keys[cursor]
       IN  \E act \in ReadableActivations(nodes[key]) :
             LET r == DefuseStep(tensor_name, nodes, key, act)
             IN  /\ activation_read' = act
                 /\ IF r.ok
                    THEN /\ nodes' = r.g
                         /\ add_defused_activation_node_list' =
                                IF r.fused = None THEN add_defused_activation_node_list
                                ELSE Append(add_defused_activation_node_list, r.fused)
                         /\ pc' = IF cursor = Len(node_keys) THEN "defuse_add" ELSE "defuse"
                         /\ cursor' = IF cursor = Len(node_keys) THEN 1 ELSE cursor + 1
                         /\ UNCHANGED error
                    ELSE /\ pc' = "failed"
                         /\ error' = "ValueError"
                         /\ UNCHANGED <<nodes, add_defused_activation_node_list, cursor>>
    /\ UNCHANGED <<node_keys, built_nodes, built_keys>>
    /\ UNCHANGED main_vars
    /\ UNCHANGED input_vars
    /\ UNCHANGED padding_vars

\* Tree.__defused, the closing loop (lines 159-160)
DefuseAdd ==
    /\ pc = "defuse_add"
    /\ nodes' = AddFusedNodes(nodes, add_defused_activation_node_list)
    /\ node_keys' = AddFusedKeys(node_keys, add_defused_activation_node_list)
    /\ pc' = AfterTree
    /\ UNCHANGED <<error, cursor, add_defused_activation_node_list, activation_read,
                   built_nodes, built_keys>>
    /\ UNCHANGED main_vars
    /\ UNCHANGED input_vars
    /\ UNCHANGED padding_vars

\* main, one iteration of the loop over tree_dict (lines 144-190)
LowerNode ==
    /\ pc = "lower"
    /\   LET key == node_keys[cursor]
             shape == tensor_shape[nodes[key].op.output]
             output_node_info ==
                 get_output_node_info_by_name_if_exist(key, tensor_name, tensor_shape, model_outputs)
             first_input == IF nodes[key].input_nodes_name # <<>>
                            THEN nodes[key].input_nodes_name[1] ELSE model_input_name
             prev_node_name == IF first_input \in DOMAIN op_name__sub_op_name__table
                               THEN Last(op_name__sub_op_name__table[first_input])
                               ELSE first_input
             gen == generate(tensor_name, nodes[key], << prev_node_name >>, shape)
             sub_op_node_list == SelectSeq(gen.node_list, LAMBDA n : n.op_type # "Constant")
             end_pos == Len(onnx_node_list) + Len(gen.node_list)
             emitted == onnx_node_list \o gen.node_list
             end_node == Last(sub_op_node_list)
         IN  /\ op_name__sub_op_name__table' =
                   (key :> [i \in 1..Len(sub_op_node_list) |-> sub_op_node_list[i].name])
                   @@ op_name__sub_op_name__table
             /\ inner_node_shape_value_info' = inner_node_shape_value_info \o gen.value_infos
             /\ onnx_weight_node_list' = onnx_weight_node_list \o gen.weight_node_list
             /\ IF output_node_info = None
                THEN \* get_output_node_info_by_name_if_exist found nothing
                     /\ onnx_node_list' = emitted
                     /\ UNCHANGED output_tensor_value_info
                ELSE IF caller = "main_transpose"
                THEN LET transpose_node == build_button_transpose_node(end_node, Len(output_node_info.shape))
                     IN  /\ output_tensor_value_info' =
                               Append(output_tensor_value_info,
                                      button_out_value_info(end_node, output_node_info.shape))
                         /\ onnx_node_list' =
                               IF transpose_node # None
                               THEN Append(emitted, transpose_node)
                               ELSE [emitted EXCEPT ![end_pos] = RenameOutput(@)]
                ELSE /\ output_tensor_value_info' =
                           Append(output_tensor_value_info, set_end_node(end_node, output_node_info.shape))
                     /\ onnx_node_list' = [emitted EXCEPT ![end_pos] = RenameOutput(@)]
    /\ IF cursor = Len(node_keys)
       THEN pc' = "save" /\ cursor' = 1
       ELSE pc' = "lower" /\ cursor' = cursor + 1
    /\ UNCHANGED <<error, model_saved, input_tensor_value_info>>
    /\ UNCHANGED tree_vars
    /\ UNCHANGED input_vars
    /\ UNCHANGED padding_vars

\* main, lines 195-216: the graph is assembled and saved
Save ==
    /\ pc = "save"
    /\ model_saved' = TRUE
    /\ pc' = "done"
    /\ UNCHANGED <<error, cursor, onnx_node_list, op_name__sub_op_name__table, output_tensor_value_info,
                   input_tensor_value_info, inner_node_shape_value_info, onnx_weight_node_list>>
    /\ UNCHANGED tree_vars
    /\ UNCHANGED input_vars
    /\ UNCHANGED padding_vars

Next ==
    \/ MainHead
    \/ ParseOp
    \/ EliminateSideInput
    \/ InitOutputsNodeInfo
    \/ DefuseSkip
    \/ DefuseVisit
    \/ DefuseAdd
    \/ LowerNode
    \/ Save

Spec == Init /\ [][Next]_vars

-----------------------------------------------------------------------------
(* The de-fusion pass under every visiting order.  Tree.__defused visits the   *)
(* nodes in dictionary order; here each visit picks any node not yet visited,  *)
(* so the dictionary order is one of the explored orders.                      *)

OrderOpTypes == {"CONV_2D", "ADD", "RELU"}

OrderActivations == {"NONE", "RELU", "TANH"}

\* the fused activation code of the node's operator
ActOf(acts, node) == IF node.layer \in FusedActivationLayers THEN acts[node.op.output] ELSE "-"

\* Tree.__defused (lines 118-160) in the order `keys`
RECURSIVE DefuseInOrder(_, _, _, _, _)
DefuseInOrder(names, g, keys, acts, list) ==
    IF keys = <<>> THEN [g |-> AddFusedNodes(g, list), ok |-> TRUE]
    ELSE LET r == DefuseStep(names, g, Head(keys), ActOf(acts, g[Head(keys)]))
         IN  IF ~r.ok THEN [g |-> g, ok |-> FALSE]
             ELSE DefuseInOrder(names, r.g, Tail(keys), acts,
                                IF r.fused = None THEN list ELSE Append(list, r.fused))

InitOrder ==
    /\ tflite_ops \in OpLists(OrderOps, OrderOpTypes)
    /\ tensor_name = UniqueNameTable(OrderOps)
    /\ tensor_shape = [i \in Tensors(OrderOps) |-> ShapeOfRank(4)]
    /\ model_outputs = {}
    /\ visit_acts \in [1..OrderOps -> OrderActivations]
    /\ caller = "Tree"
    /\ pc = "order_visit"
    /\ error = ""
    /\ cursor = 1
    /\ nodes = BuildGraph(tensor_name, tflite_ops).g
    /\ node_keys = BuildGraph(tensor_name, tflite_ops).keys
    /\ built_nodes = nodes
    /\ built_keys = node_keys
    /\ visit_todo = DOMAIN nodes
    /\ add_defused_activation_node_list = <<>>
    /\ activation_read = ""
    /\ NoMainState
    /\ NoPaddingCall

\* one iteration of the loop of Tree.__defused, on any node not yet visited
OrderVisit ==
    /\ pc = "order_visit"
    /\ \E key \in visit_todo :
          LET r == DefuseStep(tensor_name, nodes, key, ActOf(visit_acts, nodes[key]))
          IN  /\ activation_read' = ActOf(visit_acts, nodes[key])
              /\ visit_todo' = visit_todo \ {key}
              /\ IF r.ok
                 THEN /\ nodes' = r.g
                      /\ add_defused_activation_node_list' =
                             IF r.fused = None THEN add_defused_activation_node_list
                             ELSE Append(add_defused_activation_node_list, r.fused)
                      /\ pc' = IF visit_todo' = {} THEN "order_add" ELSE "order_visit"
                      /\ UNCHANGED error
                 ELSE /\ pc' = "failed"
                      /\ error' = "ValueError"
                      /\ UNCHANGED <<nodes, add_defused_activation_node_list>>
    /\ UNCHANGED <<tflite_ops, tensor_name, tensor_shape, model_outputs, caller, visit_acts, cursor, node_keys, built_nodes, built_keys>>
    /\ UNCHANGED main_vars
    /\ UNCHANGED padding_vars

\* the closing loop of Tree.__defused (lines 159-160)
OrderAdd ==
    /\ pc = "order_add"
    /\ nodes' = AddFusedNodes(nodes, add_defused_activation_node_list)
    /\ node_keys' = AddFusedKeys(node_keys, add_defused_activation_node_list)
    /\ pc' = "order_done"
    /\ UNCHANGED <<tflite_ops, tensor_name, tensor_shape, model_outputs, caller, visit_acts, visit_todo,
                   error, cursor,
                   add_defused_activation_node_list, activation_read, built_nodes, built_keys>>
    /\ UNCHANGED main_vars
    /\ UNCHANGED padding_vars

NextOrder ==
    \/ OrderVisit
    \/ OrderAdd

SpecOrder == InitOrder /\ [][NextOrder]_vars

-----------------------------------------------------------------------------
(* main over the source models built of a convolution and the activation kinds *)
(* of aact_layers.py, with tensors of every rank and any set of declared       *)
(* outputs                                                                     *)

LowerOpTypes == {"CONV_2D", "RELU", "RELU6", "LOGISTIC", "SOFTMAX", "PRELU"}

\* the fused activation codes the convolutions of these models hold
LowerActivations == {"NONE", "RELU6"}

\* the tensor shapes of a source model: a convolution's feature map, output and
\* filter are of rank 4, an elementwise activation's output has the shape of its
\* operand
ModelShapes(ops) ==
    LET n == Len(ops)
    IN  { sh \in [Tensors(n) -> Shapes] :
            /\ sh[ConstTensor(n)] = ShapeOfRank(4)
            /\ \A k \in 1..n :
                  /\ ops[k].op_type = "CONV_2D" => sh[ops[k].inputs[1]] = ShapeOfRank(4)
                  /\ sh[k] = IF ops[k].op_type = "CONV_2D" THEN ShapeOfRank(4)
                             ELSE sh[ops[k].inputs[1]] }

\* the fused activation codes of a source model: "-" where the operator's options hold none
ModelActivations(ops) ==
    { a \in [1..Len(ops) -> LowerActivations \cup {"-"}] :
        \A k \in 1..Len(ops) :
            (a[k] = "-") <=> (LayerClassOf[ops[k].op_type] \notin FusedActivationLayers) }

InitLower ==
    /\ caller \in {"main_transpose", "main_release"}
    /\ \E n \in 1..LowerOps :
          /\ tflite_ops \in OpLists(n, LowerOpTypes)
          /\ tensor_name = UniqueNameTable(n)
          /\ model_outputs \in SUBSET (1..n)
    /\ tensor_shape \in ModelShapes(tflite_ops)
    /\ visit_acts \in ModelActivations(tflite_ops)
    /\ pc = "main"
    /\ error = ""
    /\ cursor = 1
    /\ nodes = <<>>
    /\ node_keys = <<>>
    /\ add_defused_activation_node_list = <<>>
    /\ activation_read = ""
    /\ built_nodes = <<>>
    /\ built_keys = <<>>
    /\ NoMainState
    /\ visit_todo = {}
    /\ NoPaddingCall

NextLower ==
    \/ MainHead
    \/ ParseOp
    \/ EliminateSideInput
    \/ InitOutputsNodeInfo
    \/ DefuseSkip
    \/ LowerNode
    \/ Save

SpecLower == InitLower /\ [][NextLower]_vars

-----------------------------------------------------------------------------
(* utils.py: getPadding, applied to every argument within the bounds *)

Max(a, b) == IF a >= b THEN a ELSE b

PaddingModes == {"VALID", "SAME", "FULL"}

\* a variant that puts the larger half of an odd amount on the leading side
getPadding_LeadingHeavy(feat, kernel, stride, m) ==
    IF m # "VALID" /\ m # "SAME" THEN NoneList
    ELSE IF m = "VALID" THEN <<0, 0, 0, 0>>
    ELSE LET pad_h == IF feat[2] % stride[1] = 0
                      THEN Max(kernel[1] - stride[1], 0)
                      ELSE Max(kernel[1] - (feat[2] % stride[1]), 0)
             pad_w == IF feat[3] % stride[2] = 0
                      THEN Max(kernel[2] - stride[2], 0)
                      ELSE Max(kernel[2] - (feat[3] % stride[2]), 0)
         IN  << pad_h - pad_h \div 2, pad_w - pad_w \div 2, pad_h \div 2, pad_w \div 2 >>

\* a variant that ignores the remainder of the size by the stride
getPadding_NoRemainder(feat, kernel, stride, m) ==
    IF m # "VALID" /\ m # "SAME" THEN NoneList
    ELSE IF m = "VALID" THEN <<0, 0, 0, 0>>
    ELSE LET pad_h == Max(kernel[1] - stride[1], 0)
             pad_w == Max(kernel[2] - stride[2], 0)
         IN  << pad_h \div 2, pad_w \div 2, pad_h - pad_h \div 2, pad_w - pad_w \div 2 >>

\* getPadding(feat_map_size, kernel_size, strides, mode); Python's lists are
\* 0-based, so feat_map_size[1] is feat[2] here
getPadding(feat, kernel, stride, m) ==
    IF m # "VALID" /\ m # "SAME" THEN NoneList
    ELSE IF m = "VALID" THEN <<0, 0, 0, 0>>
    ELSE LET pad_h == IF feat[2] % stride[1] = 0
                      THEN Max(kernel[1] - stride[1], 0)
                      ELSE Max(kernel[1] - (feat[2] % stride[1]), 0)
             pad_w == IF feat[3] % stride[2] = 0
                      THEN Max(kernel[2] - stride[2], 0)
                      ELSE Max(kernel[2] - (feat[3] % stride[2]), 0)
         IN  << pad_h \div 2, pad_w \div 2, pad_h - pad_h \div 2, pad_w - pad_w \div 2 >>

InitPadding ==
    /\ feat_map_size \in { <<1, h, w, 3>> : h \in 1..MaxFeat, w \in 1..MaxFeat }
    /\ kernel_size \in { <<kh, kw>> : kh \in 1..MaxKernel, kw \in 1..MaxKernel }
    /\ strides \in { <<sh, sw>> : sh \in 1..MaxStride, sw \in 1..MaxStride }
    /\ mode \in PaddingModes
    /\ padding = <<>>
    /\ pc = "padding"
    /\ tflite_ops = <<>>
    /\ tensor_name = <<>>
    /\ tensor_shape = <<>>
    /\ model_outputs = {}
    /\ caller = "getPadding"
    /\ error = ""
    /\ cursor = 1
    /\ nodes = <<>>
    /\ node_keys = <<>>
    /\ add_defused_activation_node_list = <<>>
    /\ activation_read = ""
    /\ built_nodes = <<>>
    /\ built_keys = <<>>
    /\ NoMainState
    /\ visit_acts = <<>>
    /\ visit_todo = {}

\* one call of getPadding
GetPadding ==
    /\ pc = "padding"
    /\ padding' = getPadding(feat_map_size, kernel_size, strides, mode)
    /\ pc' = "padding_done"
    /\ UNCHANGED <<feat_map_size, kernel_size, strides, mode, error, cursor>>
    /\ UNCHANGED tree_vars
    /\ UNCHANGED main_vars
    /\ UNCHANGED input_vars

NextPadding == GetPadding

SpecPadding == InitPadding /\ [][NextPadding]_vars

-----------------------------------------------------------------------------
(* Properties of the graph builder *)

\* side-input elimination and output-edge inference have both run
GraphBuilt == pc \in {"defuse", "defuse_add", "lower", "save", "done"}

\* no two tensors of the source model share a name
DistinctTensorNames ==
    \A i, j \in DOMAIN tensor_name : i # j => tensor_name[i] # tensor_name[j]

\* the operator lists no tensor twice among its inputs
NoRepeatedInput(op) ==
    \A i, j \in 1..Len(op.inputs) : i # j => op.inputs[i] # op.inputs[j]

\* side-input elimination has run
SideInputsEliminated == pc = "init_outputs" \/ GraphBuilt

\* C1: in every graph the builder produces, output edges are the exact inverse of
\* input edges, in the index form and in the name form: A is among B's inputs
\* iff B is among A's outputs, and every output entry is a node of the graph.
C1_OutputsInverseOfInputs ==
    GraphBuilt =>
        \A A \in DOMAIN built_nodes :
            /\ Range(built_nodes[A].output_nodes_idx) \subseteq nodes_idx_of(built_nodes)
            /\ Range(built_nodes[A].output_nodes_name) \subseteq DOMAIN built_nodes
            /\ \A B \in DOMAIN built_nodes :
                  /\ Contains(built_nodes[B].input_nodes_idx, built_nodes[A].node_idx)
                        <=> Contains(built_nodes[A].output_nodes_idx, built_nodes[B].node_idx)
                  /\ Contains(built_nodes[B].input_nodes_name, A)
                        <=> Contains(built_nodes[A].output_nodes_name, B)

\* a built graph of two nodes with an edge between them and a node without inputs
C1_Witness ==
    /\ pc = "defuse"
    /\ Cardinality(DOMAIN nodes) = 2
    /\ \E A, B \in DOMAIN nodes :
          /\ A # B
          /\ Contains(nodes[B].input_nodes_name, A)
          /\ Contains(nodes[B].input_nodes_idx, nodes[A].node_idx)
          /\ nodes[A].input_nodes_name = <<>>

\* C2 (as claimed): after side-input elimination every node's input-index list and
\* input-name list have the same length, and every entry is the index (resp. name)
\* of a node of the graph.
C2_InputListsAgree ==
    SideInputsEliminated =>
        LET g == IF GraphBuilt THEN built_nodes ELSE nodes
        IN  \A k \in DOMAIN g :
                /\ Len(g[k].input_nodes_idx) = Len(g[k].input_nodes_name)
                /\ Range(g[k].input_nodes_idx) \subseteq nodes_idx_of(g)
                /\ Range(g[k].input_nodes_name) \subseteq DOMAIN g

\* C3 (as claimed): output-edge inference lists a consumer B exactly once in its
\* producer A's output-index list and exactly once in A's output-name list, also
\* when B lists A more than once, so A's two output lists have equal length and
\* name the same consumers position by position.  Stated for the source models
\* whose tensor names are all distinct, where it already fails.
C3_NoEdgeAddedTwice ==
    GraphBuilt /\ DistinctTensorNames =>
        \A A \in DOMAIN built_nodes :
            /\ \A B \in DOMAIN built_nodes :
                  Contains(built_nodes[B].input_nodes_name, A) =>
                      /\ Count(built_nodes[A].output_nodes_idx, built_nodes[B].node_idx) = 1
                      /\ Count(built_nodes[A].output_nodes_name, B) = 1
            /\ Len(built_nodes[A].output_nodes_idx) = Len(built_nodes[A].output_nodes_name)
            /\ \A i \in 1..Len(built_nodes[A].output_nodes_name) :
                  i <= Len(built_nodes[A].output_nodes_idx) =>
                      built_nodes[built_nodes[A].output_nodes_name[i]].node_idx
                          = built_nodes[A].output_nodes_idx[i]

-----------------------------------------------------------------------------
(* Properties of the de-fusion pass *)

\* Tree(model_path) has returned with the de-fusion pass run
TreeDefused == pc = "done" /\ caller = "Tree"

\* the Tree constructor has returned a graph
TreeReturned == pc \in {"lower", "save", "done"}

\* the nodes the pass de-fused: those whose fused node entered the graph
DefusedNodes == { N \in DOMAIN built_nodes : (N \o "_Fused") \in DOMAIN nodes }

\* the nodes that listed N among their inputs before the pass
ConsumersOf(N) == { M \in DOMAIN built_nodes : Contains(built_nodes[M].input_nodes_name, N) }

\* C4 (as claimed): each de-fused node N adds exactly one node <N.name>_Fused whose
\* single input is N and whose outputs are N's previous outputs; N's outputs become
\* exactly that node; every former consumer of N lists the fused node and no longer
\* lists N, also a consumer that listed N more than once.  Stated for the source
\* models whose tensor names are all distinct, where it already fails.
C4_DefusionPostcondition ==
    TreeDefused /\ DistinctTensorNames =>
        /\ Cardinality(DOMAIN nodes) = Cardinality(DOMAIN built_nodes) + Cardinality(DefusedNodes)
        /\ \A N \in DefusedNodes :
              LET F == N \o "_Fused"
              IN  /\ nodes[F].input_nodes_name = << N >>
                  /\ nodes[F].output_nodes_name = built_nodes[N].output_nodes_name
                  /\ nodes[N].output_nodes_name = << F >>
                  /\ \A M \in ConsumersOf(N) :
                        /\ Contains(nodes[M].input_nodes_name, F)
                        /\ ~Contains(nodes[M].input_nodes_name, N)

\* the index lists and the name lists of a node describe the same edges in the
\* same order; a fused node's index is the sentinel -1
InLockStep(n) ==
    /\ Len(n.input_nodes_idx) = Len(n.input_nodes_name)
    /\ \A i \in 1..Len(n.input_nodes_name) :
          nodes[n.input_nodes_name[i]].node_idx = n.input_nodes_idx[i]
    /\ Len(n.output_nodes_idx) = Len(n.output_nodes_name)
    /\ \A i \in 1..Len(n.output_nodes_name) :
          nodes[n.output_nodes_name[i]].node_idx = n.output_nodes_idx[i]

\* C5 (as claimed): after the pass, a de-fused node N, its fused node and every
\* former consumer of N have index lists and name lists of equal length that
\* describe the same edges in the same order, the fused node being referred to by
\* the index -1 wherever it is referred to by name.  Stated for the source models
\* whose tensor names are all distinct and whose operators list no tensor twice.
C5_DefusionKeepsLockStep ==
    /\ TreeDefused
    /\ DistinctTensorNames
    /\ \A i \in 1..Len(tflite_ops) : NoRepeatedInput(tflite_ops[i])
    =>  \A N \in DefusedNodes :
            /\ nodes[N \o "_Fused"].node_idx = -1
            /\ InLockStep(nodes[N])
            /\ InLockStep(nodes[N \o "_Fused"])
            /\ \A M \in ConsumersOf(N) : InLockStep(nodes[M])

\* C6 (as claimed): when, for some node, filtering the declared input indices
\* against the node indices and filtering the declared input names against the
\* node names give lists of different length, graph construction ends in a fatal
\* error and returns no graph.
C6_MalformedEdgesFailFast ==
    TreeReturned =>
        \A k \in DOMAIN built_nodes :
            LET declared == Layer(tensor_name, built_nodes[k].op, built_nodes[k].layer)
            IN  Len(SelectSeq(declared.input_nodes_idx, LAMBDA i : i \in nodes_idx_of(built_nodes)))
                  = Len(SelectSeq(declared.input_nodes_name, LAMBDA n : n \in DOMAIN built_nodes))

-----------------------------------------------------------------------------
(* Properties of the run as a whole *)

UnsupportedOps == { i \in 1..Len(tflite_ops) : tflite_ops[i].op_type \notin SupportedOpTypes }

Min(S) == CHOOSE x \in S : \A y \in S : x <= y

\* C7: when some operator's kind is not supported, the run never gets past graph
\* construction: it ends in the ValueError raised for the first such operator in
\* source order, no operator is lowered (the name table holds the model input
\* alone and the node list nothing but the head transpose main built before the
\* Tree), no output is declared and the model is never saved.
C7_UnsupportedOperatorAborts ==
    UnsupportedOps # {} =>
        /\ pc \in {"main", "parse", "failed"}
        /\ pc = "parse" => cursor <= Min(UnsupportedOps)
        /\ pc = "failed" => error = "ValueError" /\ cursor = Min(UnsupportedOps)
        /\ model_saved = FALSE
        /\ DOMAIN op_name__sub_op_name__table \subseteq {model_input_name}
        /\ \A i \in 1..Len(onnx_node_list) :
              onnx_node_list[i] = build_head_transpose_node_for_channel_last_2_channel_first(model_input_name)
        /\ output_tensor_value_info = <<>>

\* main has failed on the second operator, after a supported first one
C7_Witness ==
    /\ pc = "failed"
    /\ caller = "main_transpose"
    /\ cursor = 2
    /\ Cardinality(DOMAIN nodes) = 1
    /\ Len(onnx_node_list) = 1

\* C8 (as claimed): the graph the de-fusion pass ends with is the same whatever
\* the order in which the nodes are visited: the same nodes and, for every node,
\* the same ordered input and output lists as under the dictionary order.
C8_OrderIndependent ==
    pc = "order_done" =>
        nodes = DefuseInOrder(tensor_name, built_nodes, built_keys, visit_acts, <<>>).g


\* the activation codes the pass splits out
SupportedFusedActivations == {"RELU", "RELU6"}

\* one visit of the pass: nothing changes unless the code read is RELU or RELU6,
\* and then exactly one node of the matching class is synthesized
C9_Visit ==
    pc = "defuse" /\ enable_defuse =>
        /\ activation_read' \notin SupportedFusedActivations =>
              /\ nodes' = nodes
              /\ add_defused_activation_node_list' = add_defused_activation_node_list
              /\ pc' # "failed"
        /\ activation_read' \in SupportedFusedActivations /\ pc' # "failed" =>
              /\ Len(add_defused_activation_node_list') = Len(add_defused_activation_node_list) + 1
              /\ Last(add_defused_activation_node_list').layer =
                    (IF activation_read' = "RELU" THEN "ReluDefused" ELSE "Relu6Defused")

\* the pass, once and twice, over the built graph for every assignment of codes
\* that are absent, unsupported or unrecognized
C9_PassIsIdentity ==
    pc = "defuse" =>
        \A acts \in [1..Len(tflite_ops) -> ActivationFunctionType \ SupportedFusedActivations] :
            LET once == DefuseInOrder(tensor_name, nodes, node_keys, acts, <<>>)
                twice == DefuseInOrder(tensor_name, once.g, node_keys, acts, <<>>)
            IN  once.ok /\ once.g = nodes /\ twice.ok /\ twice.g = once.g

\* C9: de-fusion is a no-op wherever there is nothing to split out: a visit of a
\* node whose fused activation is NONE, RELU_N1_TO_1, TANH, SIGN_BIT or an
\* unrecognized code, or whose kind carries no fused activation, synthesizes no
\* node and changes no edge list; so the pass applied once or twice to a graph
\* without a supported fused activation returns it unchanged; only RELU and RELU6
\* yield a synthesized node.
C9_NoOpWithoutSupportedActivation ==
    /\ [][C9_Visit]_vars
    /\ [](C9_PassIsIdentity)
    /\ [](TreeDefused /\ add_defused_activation_node_list = <<>> => nodes = built_nodes)

\* the pass has visited a convolution with a fused TANH that feeds another node,
\* and left the graph as built
C9_Witness ==
    /\ pc \in {"defuse", "defuse_add"}
    /\ enable_defuse
    /\ activation_read = "TANH"
    /\ nodes = built_nodes
    /\ \E k \in DOMAIN nodes : nodes[k].layer = "Convolution" /\ nodes[k].output_nodes_name # <<>>

\* the node the visiting-order step has just visited
VisitedNode == CHOOSE k \in visit_todo : k \notin visit_todo'

\* C10: de-fusing a node N leaves every other node's edges alone: a node that is
\* neither N nor a consumer of N keeps its four lists; a consumer of N keeps its
\* outputs and its index lists, gains the fused node among its input names and,
\* that entry and one reference to N apart, lists the same inputs in the same
\* order; the fused nodes synthesized earlier are unchanged.
C10_Visit ==
    pc = "order_visit" /\ Len(add_defused_activation_node_list') > Len(add_defused_activation_node_list) =>
        LET N == VisitedNode
            F == N \o "_Fused"
        IN  /\ SubSeq(add_defused_activation_node_list', 1, Len(add_defused_activation_node_list))
                  = add_defused_activation_node_list
            /\ DOMAIN nodes' = DOMAIN nodes
            /\ \A K \in DOMAIN nodes \ {N} :
                  IF Contains(nodes[K].input_nodes_name, N)
                  THEN /\ nodes'[K] = [nodes[K] EXCEPT !.input_nodes_name = nodes'[K].input_nodes_name]
                       /\ Contains(nodes'[K].input_nodes_name, F)
                       /\ RemoveFirst(nodes'[K].input_nodes_name, F)
                             = RemoveFirst(nodes[K].input_nodes_name, N)
                  ELSE nodes'[K] = nodes[K]

C10_DefusionFrame == [][C10_Visit]_vars

\* the pass has ended with a consumer of two producers of which only the first was de-fused
C10_Witness ==
    /\ pc = "order_done"
    /\ \E M, A, B \in DOMAIN built_nodes :
          /\ A # B
          /\ built_nodes[M].input_nodes_name = << A, B >>
          /\ A \in DefusedNodes
          /\ B \notin DefusedNodes
          /\ nodes[M].input_nodes_name = << B, A \o "_Fused" >>

\* the name a consumer is to list for the producer x once the pass has run
NameAfterDefusion(x) == IF x \in DefusedNodes THEN x \o "_Fused" ELSE x

\* C17 (as claimed): de-fusion keeps every consumer's inputs in their original
\* order: <N.name>_Fused takes exactly the position N occupied in the consumer's
\* input list and the other entries stay where they were, so the consumer's first
\* input is the same producer before and after the pass.  Stated for the passes
\* that de-fuse a single node of a model whose operators list no tensor twice,
\* where the visiting order plays no part and the claim already fails.
C17_InputOrderKept ==
    /\ pc = "order_done"
    /\ Len(add_defused_activation_node_list) = 1
    /\ \A i \in 1..Len(tflite_ops) : NoRepeatedInput(tflite_ops[i])
    =>  \A M \in DOMAIN built_nodes :
            nodes[M].input_nodes_name =
                [i \in 1..Len(built_nodes[M].input_nodes_name) |->
                    NameAfterDefusion(built_nodes[M].input_nodes_name[i])]

-----------------------------------------------------------------------------
(* Properties of the pipeline driver *)

\* main has assembled and saved the target graph
Converted == pc = "done" /\ model_saved

\* the shapes declared for the tensor of that name among the emitted nodes' outputs
DeclaredShapes(name) ==
    { inner_node_shape_value_info[i].shape :
        i \in { j \in 1..Len(inner_node_shape_value_info) : inner_node_shape_value_info[j].name = name } }

\* the operators whose options hold the fused activation RELU6
Relu6FusedOps == { k \in 1..Len(visit_acts) : visit_acts[k] = "RELU6" }

ActivationLayers == {"Relu", "Relu6", "PRelu", "Softmax", "LOGISTIC"}

\* the shape rule of the lowering routines: [n,h,w,c] -> [n,c,h,w] for rank 4,
\* any other rank as it is
ChannelFirst(shape) ==
    IF Len(shape) = 4 THEN << shape[1], shape[4], shape[2], shape[3] >> ELSE shape

\* C12 (as claimed): every node the lowering of an activation operator (ReLU,
\* ReLU6, PReLU, Softmax, Sigmoid) emits has a declared output shape, equal to the
\* source output tensor's shape remapped [n,h,w,c] -> [n,c,h,w] when the rank is 4
\* and unchanged when the rank is anything else.
C12_EmittedShapeDeclared ==
    Converted =>
        \A key \in DOMAIN nodes :
            nodes[key].layer \in ActivationLayers =>
                \A i \in 1..Len(op_name__sub_op_name__table[key]) :
                    DeclaredShapes(op_name__sub_op_name__table[key][i])
                        = { ChannelFirst(tensor_shape[nodes[key].op.output]) }

\* the nodes main found among the model's declared outputs, in lowering order
OutputKeys == SelectSeq(node_keys, LAMBDA k : nodes[k].op.output \in model_outputs)

\* the shape the source model reports for the node's output tensor
SourceShape(k) == tensor_shape[nodes[k].op.output]

NoTransposeNode == \A i \in 1..Len(onnx_node_list) : onnx_node_list[i].op_type # "Transpose"

\* C13: with boundary conversion disabled the converted graph holds
\* no transpose node, and the external input and every external output are
\* declared with exactly the shape the source model reports (channel-last).
C13_ChannelLastWhenDisabled ==
    Converted /\ caller = "main_release" =>
        /\ NoTransposeNode
        /\ input_tensor_value_info = [name |-> model_input_name, shape |-> tensor_shape[0]]
        /\ Len(output_tensor_value_info) = Len(OutputKeys)
        /\ \A i \in 1..Len(OutputKeys) :
              output_tensor_value_info[i] =
                  [name |-> "out_" \o OutputKeys[i], shape |-> SourceShape(OutputKeys[i])]

\* the boundary step each declared output of a conversion with boundary
\* transposes gets: by the rank of its shape, the permutation of its transpose,
\* or none for a rename
BoundaryPerm(shape) ==
    IF Len(shape) = 4 THEN <<0, 2, 3, 1>>
    ELSE IF Len(shape) = 3 THEN <<0, 2, 1>>
    ELSE NoneList

\* the emitted nodes that read the tensor of that name
ReadersOf(name) == { i \in 1..Len(onnx_node_list) : Contains(onnx_node_list[i].inputs, name) }

\* the emitted node of that name
NodeNamed(name) == onnx_node_list[CHOOSE i \in 1..Len(onnx_node_list) : onnx_node_list[i].name = name]

OutputTransposes ==
    { i \in 1..Len(onnx_node_list) :
        onnx_node_list[i].op_type = "Transpose" /\ onnx_node_list[i].perm # <<0, 3, 1, 2>> }

\* C14: with boundary conversion enabled the converted graph has exactly one
\* input transpose, of permutation [0,3,1,2], placed directly after the external
\* input (it is the first node, it alone reads the external input), and every
\* declared output node gets exactly one boundary step chosen by its rank: a
\* transpose of permutation [0,2,3,1] for rank 4, of permutation [0,2,1] for rank
\* 3, reading the node and writing the external output name; for any other rank
\* no transpose, the node's own output being renamed to the external output name.
C14_BoundaryTransposes ==
    Converted /\ caller = "main_transpose" =>
        /\ onnx_node_list[1] = TargetNode("Transpose", "transpose_node_input_" \o model_input_name,
                                           << model_input_name >>,
                                           << "transpose_node_input_" \o model_input_name >>, <<0, 3, 1, 2>>)
        /\ ReadersOf(model_input_name) = {1}
        /\ \A i \in 2..Len(onnx_node_list) : onnx_node_list[i].perm # <<0, 3, 1, 2>>
        /\ Cardinality(OutputTransposes)
              = Cardinality({ i \in 1..Len(OutputKeys) : BoundaryPerm(SourceShape(OutputKeys[i])) # NoneList })
        /\ \A i \in 1..Len(OutputKeys) :
              LET k == OutputKeys[i]
                  perm == BoundaryPerm(SourceShape(k))
                  transposes == { j \in OutputTransposes : onnx_node_list[j].inputs = << k >> }
              IN  IF perm # NoneList
                  THEN /\ Cardinality(transposes) = 1
                       /\ \A j \in transposes :
                             /\ onnx_node_list[j].perm = perm
                             /\ onnx_node_list[j].outputs = << "out_" \o k >>
                       /\ NodeNamed(k).outputs = << k >>
                  ELSE /\ transposes = {}
                       /\ NodeNamed(k).outputs = << "out_" \o k >>

\* a conversion with boundary transposes of a model with two declared outputs of
\* rank 3: the head transpose and two output transposes of permutation [0,2,1]
C14_Witness ==
    /\ Converted
    /\ caller = "main_transpose"
    /\ Len(OutputKeys) = 2
    /\ Cardinality({ j \in OutputTransposes : onnx_node_list[j].perm = <<0, 2, 1>> }) = 2

\* the models built of the activation kinds only
ActivationOpTypes == {"RELU", "RELU6", "LOGISTIC", "SOFTMAX", "PRELU"}

ActivationModel == \A i \in 1..Len(tflite_ops) : tflite_ops[i].op_type \in ActivationOpTypes

\* the tensor names available to the i-th emitted node: the external input, the
\* emitted constants, the outputs of the nodes emitted before it
AvailableTo(i) ==
    {model_input_name}
        \cup { onnx_weight_node_list[j] : j \in 1..Len(onnx_weight_node_list) }
        \cup UNION { Range(onnx_node_list[j].outputs) : j \in 1..(i - 1) }

\* C18: the assembled target graph has no dangling tensor name: every input name
\* of every emitted node is the external input, an emitted constant, or the
\* output of a node emitted earlier in the node list, also for a graph output
\* node with consumers inside the graph, with boundary conversion on or off.
C18_NoDanglingName ==
    Converted /\ ActivationModel =>
        \A i \in 1..Len(onnx_node_list) :
            Range(onnx_node_list[i].inputs) \subseteq AvailableTo(i)

-----------------------------------------------------------------------------
(* Properties of the padding calculator *)

\* the amount of padding a spatial dimension needs in mode SAME
Need(size, kernel, stride) ==
    IF size % stride = 0 THEN Max(kernel - stride, 0) ELSE Max(kernel - (size % stride), 0)

\* C15: in mode SAME, for every height, width, kernel size and positive stride
\* within the bounds, getPadding returns (top, left, bottom, right) with, per
\* spatial dimension, leading = need \div 2 and trailing = need - need \div 2, where
\* need = max(kernel - stride, 0) when the size is a multiple of the stride and
\* max(kernel - size % stride, 0) otherwise; so leading + trailing = need, both are
\* non-negative, and trailing - leading is 0 or 1.
C15_SamePaddingSplit ==
    pc = "padding_done" /\ mode = "SAME" =>
        LET need_h == Need(feat_map_size[2], kernel_size[1], strides[1])
            need_w == Need(feat_map_size[3], kernel_size[2], strides[2])
            top == padding[1]
            left == padding[2]
            bottom == padding[3]
            right == padding[4]
        IN  /\ Len(padding) = 4
            /\ top = need_h \div 2 /\ bottom = need_h - need_h \div 2
            /\ left = need_w \div 2 /\ right = need_w - need_w \div 2
            /\ top + bottom = need_h /\ left + right = need_w
            /\ top >= 0 /\ bottom >= 0 /\ left >= 0 /\ right >= 0
            /\ bottom - top \in {0, 1} /\ right - left \in {0, 1}

\* getPadding has returned for a height that is not a multiple of the stride and
\* needs an odd amount, and a width that is a multiple of the stride
C15_Witness ==
    /\ pc = "padding_done"
    /\ mode = "SAME"
    /\ feat_map_size = <<1, 5, 4, 3>>
    /\ kernel_size = <<2, 3>>
    /\ strides = <<2, 2>>
    /\ padding = <<0, 0, 1, 1>>

\* the scenario of the specification's test seed
SeedScenario ==
    /\ pc = "padding_done"
    /\ mode = "SAME"
    /\ feat_map_size[2] = 7 /\ feat_map_size[3] = 7
    /\ kernel_size = <<3, 3>>
    /\ strides = <<2, 2>>

\* C16 (as claimed): getPadding([1,7,7,c], [3,3], [2,2], SAME) returns (0,1,0,1)
\* as (top, left, bottom, right).
C16_SeedPaddingAsClaimed == SeedScenario => padding = <<0, 1, 0, 1>>

\* C16 (amended): getPadding([1,7,7,c], [3,3], [2,2], SAME) returns (1,1,1,1) as
\* (top, left, bottom, right): 7 % 2 = 1, need = max(3 - 1, 0) = 2, split 1 / 1 on
\* the height and on the width.
C16_SeedPadding == SeedScenario => padding = <<1, 1, 1, 1>>

\* getPadding has returned for the seed scenario
C16_Witness == SeedScenario /\ Len(padding) = 4

====
